---- MODULE Spec2Model ----
(***************************************************************************)
(* Peer-review / course-management server (src/server.js, express +        *)
(* sqlite3) over the schema of dbquery.sql (src/unnamed/part_001).         *)
(*                                                                         *)
(* The database is one value `db` (one field per table) reached through    *)
(* the single shared connection `db` of server.js:40; `txn` is the         *)
(* transaction state of that connection.  Every HTTP request occupies a    *)
(* slot of `req`; a handler is split into steps exactly where the source   *)
(* hands control back to the event loop (a sqlite3 callback).              *)
(*                                                                         *)
(* No statement of server.js issues PRAGMA foreign_keys = ON, so the       *)
(* FOREIGN KEY clauses of the schema are not enforced (SQLite default);    *)
(* PRIMARY KEY, NOT NULL and CHECK constraints are.                        *)
(***************************************************************************)
EXTENDS Integers, Sequences, FiniteSets, TLC

VARIABLES db, txn, req

vars == <<db, txn, req>>

(***************************************************************************)
(* Bounds of the model.                                                    *)
(***************************************************************************)
MaxResponses == 3
MaxSubmits == 2
MaxAssessments == 2
MaxQuestions == 2

NULL == "NULL"
NoId == 0

(***************************************************************************)
(* tbl_users: registration is not modelled, the users below are registered.*)
(***************************************************************************)
Teachers == {"t1", "t2"}
Students == {"s1", "s2"}
Users == Teachers \cup Students

tbl_users ==
    [u \in Users |->
        [user_id |-> u,
         first_name |-> u,
         last_name |-> u,
         user_type |-> IF u \in Teachers THEN "teacher" ELSE "student"]]

SessionOf(u) == "sess_" \o u

(***************************************************************************)
(* Text.  A response_text is a sequence of characters.                     *)
(***************************************************************************)
Digits == {"0", "1", "2", "3", "4", "5", "6", "7", "8", "9"}

DigitVal(c) ==
    CASE c = "0" -> 0 [] c = "1" -> 1 [] c = "2" -> 2 [] c = "3" -> 3
      [] c = "4" -> 4 [] c = "5" -> 5 [] c = "6" -> 6 [] c = "7" -> 7
      [] c = "8" -> 8 [] c = "9" -> 9

\* SQLite reals are kept as exact multiples of 1/Scale
Scale == 60

NullReal == [isNull |-> TRUE, v |-> 0]
Real(x) == [isNull |-> FALSE, v |-> x]

\* longest prefix of digits of a text, as an integer (0 when there is none)
RECURSIVE NumericPrefix(_, _)
NumericPrefix(text, acc) ==
    IF text = <<>> \/ Head(text) \notin Digits
    THEN acc
    ELSE NumericPrefix(Tail(text), acc * 10 + DigitVal(Head(text)))

\* CAST(response_text AS FLOAT) / CAST(response_text AS REAL)
CastReal(text) == Real(NumericPrefix(text, 0) * Scale)

\* response_text GLOB '*[0-9]*'
GlobDigit(text) == \E i \in 1..Len(text) : text[i] \in Digits

\* CASE WHEN response_text GLOB '*[0-9]*' THEN CAST(...) ELSE NULL END
CaseGlobCast(text) == IF GlobDigit(text) THEN CastReal(text) ELSE NullReal

RECURSIVE SumReal(_)
SumReal(S) ==
    IF S = {} THEN 0
    ELSE LET x == CHOOSE y \in S : TRUE
         IN x.val.v + SumReal(S \ {x})

\* AVG(expr) over the rows of a group: rows is a set of [key, val] with
\* distinct keys (one per joined row); NULL values are skipped and a group
\* without a non-NULL value averages to NULL
Avg(rows) ==
    LET nn == {x \in rows : ~x.val.isNull}
    IN IF nn = {} THEN NullReal
       ELSE Real(SumReal(nn) \div Cardinality(nn))

\* Number.prototype.toFixed(1), in tenths
ToFixed1(x) == (x.v * 10 + Scale \div 2) \div Scale

(***************************************************************************)
(* The database: one field per table of dbquery.sql that the modelled      *)
(* handlers touch.  tbl_sessions maps a session_id to its row.             *)
(***************************************************************************)
\* SELECT u.* FROM tbl_users u JOIN tbl_sessions s ... WHERE s.session_id = ?
\* AND s.status = 'active'  (the row db.get hands to the callback, or NULL)
SessionUser(d, sid) ==
    IF sid \in DOMAIN d.tbl_sessions /\ d.tbl_sessions[sid].status = "active"
       /\ d.tbl_sessions[sid].user_id \in Users
    THEN d.tbl_sessions[sid].user_id
    ELSE NULL

(***************************************************************************)
(* Reports.                                                                *)
(***************************************************************************)
\* a report that leaves out the visibility filter
IsPublicUnfiltered(ar) == TRUE

\* WHERE ... AND ar.visibility = 'public'
IsPublic(ar) == ar.visibility = "public"

\* AVG(CAST(ar.response_text AS FLOAT)) over the responses of a group
AvgCast(rows) ==
    Avg({[key |-> ar.assessment_response_id, val |-> CastReal(ar.response_text)] :
            ar \in rows})

\* GET /api/reports/student/:userId : one row per assessment that has a
\* public response of userId (assessment_id is the GROUP BY key)
StudentReport(d, userId) ==
    LET Rows(a) == {ar \in d.tbl_assessment_responses :
                        /\ ar.assessment_id = a.assessment_id
                        /\ ar.user_id = userId
                        /\ IsPublic(ar)}
    IN {[assessment_id |-> a.assessment_id,
         name |-> a.name,
         average |-> AvgCast(Rows(a))] :
            a \in {x \in d.tbl_assessments : Rows(x) # {}}}

\* GET /api/reports/course/:courseId : one row per user that has a public
\* response to an assessment of the course (user_id is the GROUP BY key)
CourseReport(d, courseId) ==
    LET Rows(u) == {ar \in d.tbl_assessment_responses :
                        /\ ar.user_id = u
                        /\ IsPublic(ar)
                        /\ \E a \in d.tbl_assessments :
                              /\ a.assessment_id = ar.assessment_id
                              /\ a.course_id = courseId}
    IN {[user_id |-> u,
         first_name |-> tbl_users[u].first_name,
         last_name |-> tbl_users[u].last_name,
         average |-> AvgCast(Rows(u))] :
            u \in {x \in Users : Rows(x) # {}}}

\* the rows of the teacher student report query before GROUP BY, for one
\* student: one per (assessment, response) pair that passes WHERE, where a
\* student without any response to an assessment contributes one row whose
\* ar columns are NULL
TeacherJoinRows(d, teacherUserId, u) ==
    LET As == {a \in d.tbl_assessments :
                  /\ a.user_id = teacherUserId
                  /\ a.course_id \in d.tbl_courses
                  /\ <<a.course_id, u>> \in d.tbl_enrollments}
        Match(a) == {ar \in d.tbl_assessment_responses :
                        ar.user_id = u /\ ar.assessment_id = a.assessment_id}
        Joined == {p \in As \X d.tbl_assessment_responses : p[2] \in Match(p[1])}
    IN  {[key |-> <<p[1].assessment_id, p[2].assessment_response_id>>,
          val |-> CaseGlobCast(p[2].response_text)] :
             p \in {x \in Joined : IsPublic(x[2])}}
        \cup
        {[key |-> <<a.assessment_id, NoId>>, val |-> NullReal] :
             a \in {x \in As : Match(x) = {}}}

\* `${average_score.toFixed(1)}%` or 'N/A'
FormatAverage(x) ==
    IF x.isNull THEN "N/A"
    ELSE ToString(ToFixed1(x) \div 10) \o "." \o ToString(ToFixed1(x) % 10) \o "%"

\* GET /api/reports/teacher/students : formattedResults (as a set; the
\* ORDER BY of the query is not modelled)
TeacherStudentReport(d, teacherUserId) ==
    {[studentId |-> u,
      firstName |-> tbl_users[u].first_name,
      lastName |-> tbl_users[u].last_name,
      average |-> FormatAverage(Avg(TeacherJoinRows(d, teacherUserId, u)))] :
         u \in {x \in Users : /\ tbl_users[x].user_type = "student"
                               /\ TeacherJoinRows(d, teacherUserId, x) # {}}}

(***************************************************************************)
(* The shared connection.  BEGIN TRANSACTION on a connection that already  *)
(* has a transaction open fails (the error goes to db.on('error') and is   *)
(* only logged); ROLLBACK and COMMIT without an open transaction fail too. *)
(***************************************************************************)
EmptyDb ==
    [tbl_sessions |-> <<>>,
     tbl_courses |-> {},
     tbl_enrollments |-> {},
     tbl_assessments |-> {},
     tbl_assessment_questions |-> {},
     tbl_assessment_responses |-> {}]

NoTxn == [active |-> FALSE, snapshot |-> EmptyDb]

\* db.run('BEGIN TRANSACTION')
Begin(t, d) == IF t.active THEN t ELSE [active |-> TRUE, snapshot |-> d]

\* db.run('ROLLBACK'): the database after it
RollbackDb(t, d) == IF t.active THEN t.snapshot ELSE d

\* db.run('COMMIT', cb): TRUE when cb gets an error
CommitFails(t) == ~t.active

(***************************************************************************)
(* Requests.  A request is [op, sid, body]; a slot of req holds one        *)
(* request from its arrival to its reply, and keeps the reply until the    *)
(* slot serves the next request.                                           *)
(***************************************************************************)
Slots == {1, 2}

NoBody == [none |-> TRUE]
NoLocal == [assessmentId |-> NoId, pending |-> <<>>, questionInsertError |-> NULL]
NoReply == [status |-> 0, error |-> NULL, data |-> {}]

IdleReq ==
    [op |-> "none", pc |-> "idle", sid |-> NULL, user |-> NULL,
     body |-> NoBody, local |-> NoLocal, reply |-> NoReply, raced |-> FALSE]

Reply(status, error, data) == [status |-> status, error |-> error, data |-> data]

\* res.status(..).json(..) ends the request
Done(r, reply) == [r EXCEPT !.pc = "done", !.reply = reply]

Free(s) == req[s].pc \in {"idle", "done"}

InHandler(s, op) == req[s].pc = "handler" /\ req[s].op = op

\* the (questionId, authorId, targetId) tuple of a submitResponse request
Tuple(r) == <<r.body.questionId, r.user, r.body.targetUserId>>

\* the tuple of a stored response
RowTuple(ar) == <<ar.question_id, ar.user_id, ar.target_user_id>>

CreateOps == {"createAssessment", "createAssessment2"}

InFlight(ops) == {s \in Slots : req[s].op \in ops /\ req[s].pc \notin {"idle", "done"}}

AssessmentIds(d) == {a.assessment_id : a \in d.tbl_assessments}
QuestionIds(d) == {q.assessment_question_id : q \in d.tbl_assessment_questions}
ResponseIds(d) == {ar.assessment_response_id : ar \in d.tbl_assessment_responses}

\* the bounds of the model: a request that adds rows is received only
\* while there is room for them
RoomForResponse(r, max) ==
    r.op = "submitResponse" =>
        Cardinality(db.tbl_assessment_responses)
          + Cardinality(InFlight({"submitResponse"})) < max

RoomForAssessment(r) ==
    /\ Len(r.body.questions) <= MaxQuestions
    /\ Cardinality((AssessmentIds(db)
                        \cup {q.assessment_id : q \in db.tbl_assessment_questions})
                     \ {req[s].local.assessmentId : s \in InFlight(CreateOps)})
         + Cardinality(InFlight(CreateOps)) < MaxAssessments

(***************************************************************************)
(* uuidv4(): an identifier that occurs nowhere in the state.               *)
(***************************************************************************)
IdsIn(d) ==
    AssessmentIds(d) \cup QuestionIds(d) \cup ResponseIds(d)
      \cup {q.assessment_id : q \in d.tbl_assessment_questions}
      \cup {ar.assessment_id : ar \in d.tbl_assessment_responses}
      \cup {ar.question_id : ar \in d.tbl_assessment_responses}

UsedIds ==
    IdsIn(db) \cup IdsIn(txn.snapshot)
      \cup {req[s].local.assessmentId : s \in Slots}
      \cup {NoId}

uuidv4(used) == CHOOSE n \in 1..(Cardinality(used) + 1) :
                    n \notin used /\ \A m \in 1..(n - 1) : m \in used

(***************************************************************************)
(* authenticateUser (server.js:317): every modelled route runs it first.   *)
(* The UPDATE of last_used_datetime is not modelled.                       *)
(***************************************************************************)
Receive(s, r) ==
    /\ Free(s)
    /\ LET user == IF r.sid = NULL THEN NULL ELSE SessionUser(db, r.sid)
           arrived == [IdleReq EXCEPT !.op = r.op, !.sid = r.sid, !.body = r.body,
                                      !.user = user]
           racing == {o \in Slots \ {s} :
                         /\ r.op = "submitResponse"
                         /\ InHandler(o, "submitResponse")
                         /\ Tuple(req[o]) = Tuple(arrived)}
       IN  req' = [o \in Slots |->
                     IF o = s
                     THEN IF r.sid = NULL
                          THEN Done(arrived, Reply(401, "Session ID required", {}))
                          ELSE IF user = NULL
                          THEN Done(arrived, Reply(401, "Invalid or expired session", {}))
                          ELSE [arrived EXCEPT !.pc = "handler", !.raced = racing # {}]
                     ELSE IF o \in racing /\ user # NULL
                          THEN [req[o] EXCEPT !.raced = TRUE]
                          ELSE req[o]]
    /\ UNCHANGED <<db, txn>>

(***************************************************************************)
(* express-validator.  trim() is a sanitizer: it rewrites req.body.        *)
(***************************************************************************)
RECURSIVE TrimLeft(_)
TrimLeft(t) == IF t # <<>> /\ Head(t) = " " THEN TrimLeft(Tail(t)) ELSE t

RECURSIVE TrimRight(_)
TrimRight(t) ==
    IF t # <<>> /\ t[Len(t)] = " " THEN TrimRight(SubSeq(t, 1, Len(t) - 1)) ELSE t

Trim(t) == TrimRight(TrimLeft(t))

Visibilities == {"public", "private"}

\* the validators of POST /api/responses: the params that fail
ResponseErrors(b) ==
    {f \in {"assessmentId", "questionId", "responseText", "visibility"} :
        \/ f = "assessmentId" /\ b.assessmentId = NoId
        \/ f = "questionId" /\ b.questionId = NoId
        \/ f = "responseText" /\ Trim(b.responseText) = <<>>
        \/ f = "visibility" /\ b.visibility \notin Visibilities}

(***************************************************************************)
(* POST /api/responses (server.js:848): one INSERT, no read before it.     *)
(* err is the error the INSERT reports (a storage failure; no constraint   *)
(* of tbl_assessment_responses can fail once the validators passed, the    *)
(* primary key being a fresh uuid).  An INSERT that runs while another     *)
(* request has a transaction open on the connection is part of it.         *)
(***************************************************************************)
\* an INSERT that takes the author from the request body
ResponseRowFromBody(r, id) ==
    [assessment_response_id |-> id,
     assessment_id |-> r.body.assessmentId,
     user_id |-> r.body.userId,
     target_user_id |-> r.body.targetUserId,
     question_id |-> r.body.questionId,
     response_text |-> Trim(r.body.responseText),
     visibility |-> r.body.visibility]

\* an INSERT that leaves visibility to the column's DEFAULT 'private'

ResponseRowDefaultVisibility(r, id) ==
    [assessment_response_id |-> id,
     assessment_id |-> r.body.assessmentId,
     user_id |-> r.user,
     target_user_id |-> r.body.targetUserId,
     question_id |-> r.body.questionId,
     response_text |-> Trim(r.body.responseText),
     visibility |-> "private"]

ResponseRow(r, id) ==
    [assessment_response_id |-> id,
     assessment_id |-> r.body.assessmentId,
     user_id |-> r.user,
     target_user_id |-> r.body.targetUserId,
     question_id |-> r.body.questionId,
     response_text |-> Trim(r.body.responseText),
     visibility |-> r.body.visibility]

SubmitResponse(s, err) ==
    /\ InHandler(s, "submitResponse")
    /\ LET r == req[s]
           bad == ResponseErrors(r.body)
       IN  IF bad # {}
           THEN /\ req' = [req EXCEPT ![s] = Done(r, Reply(400, "errors", bad))]
                /\ UNCHANGED db
           ELSE IF err
           THEN /\ req' = [req EXCEPT ![s] =
                              Done(r, Reply(500, "Error submitting response", {}))]
                /\ UNCHANGED db
           ELSE /\ db' = [db EXCEPT !.tbl_assessment_responses =
                                       @ \cup {ResponseRow(r, uuidv4(UsedIds))}]
                /\ req' = [req EXCEPT ![s] =
                              Done(r, Reply(201, "Response submitted successfully", {}))]
    /\ UNCHANGED txn

(***************************************************************************)
(* Report routes.                                                          *)
(***************************************************************************)
\* err.message of a failed statement, as sqlite3 words it
ErrMessage == "SQLITE_ERROR: disk I/O error"

\* GET /api/reports/student/:userId (server.js:876).  err: db.all reports
\* an error.
GetStudentReport(s, err) ==
    /\ InHandler(s, "studentReport")
    /\ req' = [req EXCEPT ![s] =
                  IF err
                  THEN Done(@, Reply(500, "Error fetching student report", {}))
                  ELSE Done(@, Reply(200, NULL, StudentReport(db, req[s].body.userId)))]
    /\ UNCHANGED <<db, txn>>

\* GET /api/reports/course/:courseId (server.js:893)
GetCourseReport(s, err) ==
    /\ InHandler(s, "courseReport")
    /\ req' = [req EXCEPT ![s] =
                  IF err
                  THEN Done(@, Reply(500, "Error fetching course report", {}))
                  ELSE Done(@, Reply(200, NULL, CourseReport(db, req[s].body.courseId)))]
    /\ UNCHANGED <<db, txn>>

\* GET /api/reports/teacher/students (server.js:915); its 500 is
\* { error: ..., details: err.message }
GetTeacherStudentReport(s, err) ==
    /\ InHandler(s, "teacherStudentReport")
    /\ req' = [req EXCEPT ![s] =
                  IF tbl_users[req[s].user].user_type # "teacher"
                  THEN Done(@, Reply(403, "Only instructors can view student reports", {}))
                  ELSE IF err
                  THEN Done(@, Reply(500, "Database error fetching student reports",
                                     {[details |-> ErrMessage]}))
                  ELSE Done(@, Reply(200, NULL, TeacherStudentReport(db, req[s].user)))]
    /\ UNCHANGED <<db, txn>>

(***************************************************************************)
(* POST /api/assessments, server.js:719.  A question of the request body   *)
(* is [type, text, options]; NULL is a missing property.  Times are        *)
(* numbers, NoTime one that is not ISO 8601.                               *)
(***************************************************************************)
NoTime == 0

\* the validators of server.js:720-726: the params that fail
AssessmentErrors(b) ==
    {f \in {"courseId", "name", "type", "startTime", "endTime", "visibility", "questions"} :
        \/ f = "courseId" /\ b.courseId = NULL
        \/ f = "name" /\ Trim(b.name) = <<>>
        \/ f = "type" /\ b.type \notin {"quiz", "survey", "review"}
        \/ f = "startTime" /\ b.startTime = NoTime
        \/ f = "endTime" /\ b.endTime = NoTime
        \/ f = "visibility" /\ b.visibility \notin Visibilities
        \/ f = "questions" /\ Len(b.questions) < 1}

\* question.options ? JSON.stringify(question.options) : '[]'
OptionsJson(q) == IF q.options = NULL THEN "[]" ELSE q.options

\* !x for a string or missing property
Falsy(x) == x \in {NULL, ""}

\* !question.type || !question.text
MissingTypeOrText(q) == Falsy(q.type) \/ Falsy(q.text)

\* the indices forEach hands to stmt.run, in order
RECURSIVE ValidIndices(_, _)
ValidIndices(qs, i) ==
    IF i > Len(qs) THEN <<>>
    ELSE IF MissingTypeOrText(qs[i]) THEN ValidIndices(qs, i + 1)
    ELSE <<i>> \o ValidIndices(qs, i + 1)

\* questionInsertError after forEach: the last question missing type or text
ForEachError(qs) ==
    LET badIdx == {i \in 1..Len(qs) : MissingTypeOrText(qs[i])}
    IN IF badIdx = {} THEN NULL
       ELSE "Question " \o ToString(CHOOSE i \in badIdx : \A j \in badIdx : j <= i)
              \o " is missing type or text."

\* an INSERT that stores the assessment as already open
AssessmentRowOpen(r, id) ==
    [assessment_id |-> id,
     course_id |-> r.body.courseId,
     user_id |-> r.user,
     name |-> Trim(r.body.name),
     type |-> r.body.type,
     start_time |-> r.body.startTime,
     end_time |-> r.body.endTime,
     visibility |-> r.body.visibility,
     status |-> "open"]

AssessmentRow(r, id) ==
    [assessment_id |-> id,
     course_id |-> r.body.courseId,
     user_id |-> r.user,
     name |-> Trim(r.body.name),
     type |-> r.body.type,
     start_time |-> r.body.startTime,
     end_time |-> r.body.endTime,
     visibility |-> r.body.visibility,
     status |-> "pending"]

QuestionRow(q, id, assessmentId) ==
    [assessment_question_id |-> id,
     assessment_id |-> assessmentId,
     question_type |-> q.type,
     question_text |-> q.text,
     options |-> OptionsJson(q)]

\* validation, then db.serialize: BEGIN TRANSACTION and the INSERT into
\* tbl_assessments, queued back to back; the callback of the INSERT runs
\* forEach (no database access).  err: the INSERT reports an error.
CreateAssessment(s, err) ==
    /\ InHandler(s, "createAssessment")
    /\ LET r == req[s]
           bad == AssessmentErrors(r.body)
           id == uuidv4(UsedIds)
           t == Begin(txn, db)
       IN  IF bad # {}
           THEN /\ req' = [req EXCEPT ![s] = Done(r, Reply(400, "Validation failed", bad))]
                /\ UNCHANGED <<db, txn>>
           ELSE /\ txn' = t
                /\ IF err
                   THEN /\ req' = [req EXCEPT ![s].pc = "insertFailed"]
                        /\ UNCHANGED db
                   ELSE /\ db' = [db EXCEPT !.tbl_assessments = @ \cup {AssessmentRow(r, id)}]
                        /\ req' = [req EXCEPT ![s].pc = "questions",
                                              ![s].local =
                                                 [assessmentId |-> id,
                                                  pending |-> ValidIndices(r.body.questions, 1),
                                                  questionInsertError |->
                                                     ForEachError(r.body.questions)]]

\* server.js:747-751: db.run('ROLLBACK') and the 500
CreateAssessmentFailed(s) ==
    /\ req[s].op = "createAssessment" /\ req[s].pc = "insertFailed"
    /\ db' = RollbackDb(txn, db)
    /\ txn' = NoTxn
    /\ req' = [req EXCEPT ![s] = Done(@, Reply(500, "Error creating assessment record", {}))]

\* one stmt.run of server.js:770 and its callback.  err: the INSERT fails.
InsertQuestion(s, err) ==
    /\ req[s].op = "createAssessment" /\ req[s].pc = "questions"
    /\ req[s].local.pending # <<>>
    /\ LET r == req[s]
           i == Head(r.local.pending)
       IN  /\ IF err
              THEN UNCHANGED db
              ELSE db' = [db EXCEPT !.tbl_assessment_questions =
                             @ \cup {QuestionRow(r.body.questions[i], uuidv4(UsedIds),
                                                 r.local.assessmentId)}]
           /\ req' = [req EXCEPT ![s].local.pending = Tail(@),
                                 ![s].local.questionInsertError =
                                    IF err THEN "Error inserting question " \o ToString(i) \o "."
                                    ELSE @]
    /\ UNCHANGED txn

\* the callback of stmt.finalize (server.js:785): ROLLBACK and 500, or
\* COMMIT and its callback
FinalizeAssessment(s) ==
    /\ req[s].op = "createAssessment" /\ req[s].pc = "questions"
    /\ req[s].local.pending = <<>>
    /\ LET r == req[s]
       IN  IF r.local.questionInsertError # NULL
           THEN /\ db' = RollbackDb(txn, db)
                /\ req' = [req EXCEPT ![s] = Done(r, Reply(500, r.local.questionInsertError, {}))]
           ELSE IF CommitFails(txn)
           THEN /\ db' = RollbackDb(txn, db)
                /\ req' = [req EXCEPT ![s] =
                              Done(r, Reply(500, "Error finalizing assessment creation", {}))]
           ELSE /\ UNCHANGED db
                /\ req' = [req EXCEPT ![s] =
                              Done(r, Reply(201, "Assessment created successfully", {}))]
    /\ txn' = NoTxn

(***************************************************************************)
(* POST /api/assessments, second copy of the server (server.js:1481): no   *)
(* check of the questions, no callback on stmt.run, COMMIT in every case.  *)
(* The INSERT names neither status (DEFAULT 'pending') nor visibility.     *)
(***************************************************************************)
AssessmentErrors2(b) ==
    {f \in {"courseId", "name", "type", "startTime", "endTime"} :
        \/ f = "courseId" /\ b.courseId = NULL
        \/ f = "name" /\ Trim(b.name) = <<>>
        \/ f = "type" /\ b.type \notin {"quiz", "survey"}
        \/ f = "startTime" /\ b.startTime = NoTime
        \/ f = "endTime" /\ b.endTime = NoTime}

RECURSIVE Indices(_, _)
Indices(i, n) == IF i > n THEN <<>> ELSE <<i>> \o Indices(i + 1, n)

CreateAssessment2(s, err) ==
    /\ InHandler(s, "createAssessment2")
    /\ LET r == req[s]
           bad == AssessmentErrors2(r.body)
           id == uuidv4(UsedIds)
           t == Begin(txn, db)
       IN  IF bad # {}
           THEN /\ req' = [req EXCEPT ![s] = Done(r, Reply(400, "errors", bad))]
                /\ UNCHANGED <<db, txn>>
           ELSE /\ txn' = t
                /\ IF err
                   THEN /\ req' = [req EXCEPT ![s].pc = "insertFailed"]
                        /\ UNCHANGED db
                   ELSE /\ db' = [db EXCEPT !.tbl_assessments =
                                     @ \cup {[AssessmentRow(r, id) EXCEPT !.visibility = NULL]}]
                        /\ req' = [req EXCEPT ![s].pc = "questions",
                                              ![s].local =
                                                 [assessmentId |-> id,
                                                  pending |-> Indices(1, Len(r.body.questions)),
                                                  questionInsertError |-> NULL]]

\* server.js:1504-1507
CreateAssessment2Failed(s) ==
    /\ req[s].op = "createAssessment2" /\ req[s].pc = "insertFailed"
    /\ db' = RollbackDb(txn, db)
    /\ txn' = NoTxn
    /\ req' = [req EXCEPT ![s] = Done(@, Reply(500, "Error creating assessment", {}))]

\* one stmt.run of server.js:1515: question_type and question_text are
\* NOT NULL, and nobody looks at the error
InsertQuestion2(s, err) ==
    /\ req[s].op = "createAssessment2" /\ req[s].pc = "questions"
    /\ req[s].local.pending # <<>>
    /\ LET r == req[s]
           q == r.body.questions[Head(r.local.pending)]
       IN  /\ IF err \/ q.type = NULL \/ q.text = NULL
              THEN UNCHANGED db
              ELSE db' = [db EXCEPT !.tbl_assessment_questions =
                             @ \cup {[QuestionRow(q, uuidv4(UsedIds), r.local.assessmentId)
                                         EXCEPT !.options = q.options]}]
           /\ req' = [req EXCEPT ![s].local.pending = Tail(@)]
    /\ UNCHANGED txn

\* stmt.finalize(); db.run('COMMIT', ...) (server.js:1524)
FinalizeAssessment2(s) ==
    /\ req[s].op = "createAssessment2" /\ req[s].pc = "questions"
    /\ req[s].local.pending = <<>>
    /\ IF CommitFails(txn)
       THEN /\ db' = RollbackDb(txn, db)
            /\ req' = [req EXCEPT ![s] = Done(@, Reply(500, "Error creating assessment", {}))]
       ELSE /\ UNCHANGED db
            /\ req' = [req EXCEPT ![s] =
                          Done(@, Reply(201, "Assessment created successfully", {}))]
    /\ txn' = NoTxn

(***************************************************************************)
(* Databases the specifications start from: the users are registered and   *)
(* signed in, two courses exist, the students are enrolled; in Catalog     *)
(* each teacher has created one review with Likert questions.              *)
(***************************************************************************)
Likert5 == "[\"1\",\"2\",\"3\",\"4\",\"5\"]"

BaseDb ==
    [EmptyDb EXCEPT
        !.tbl_sessions = [sid \in {SessionOf(u) : u \in Users} |->
                             [user_id |-> CHOOSE u \in Users : SessionOf(u) = sid,
                              status |-> "active"]],
        !.tbl_courses = {"c1", "c2"},
        !.tbl_enrollments = {<<"c1", "s1">>, <<"c1", "s2">>, <<"c2", "s2">>}]

CatalogAssessment(id, course, owner) ==
    [assessment_id |-> id, course_id |-> course, user_id |-> owner,
     name |-> <<"A", ToString(id)>>, type |-> "review", start_time |-> 1, end_time |-> 2,
     visibility |-> "public", status |-> "pending"]

CatalogQuestion(id, assessmentId) ==
    [assessment_question_id |-> id, assessment_id |-> assessmentId,
     question_type |-> "likert", question_text |-> "Rate", options |-> Likert5]

Catalog ==
    [BaseDb EXCEPT
        !.tbl_assessments = {CatalogAssessment(1, "c1", "t1"), CatalogAssessment(4, "c2", "t2")},
        !.tbl_assessment_questions =
            {CatalogQuestion(2, 1), CatalogQuestion(3, 1), CatalogQuestion(5, 4)}]

IdleSlots == [s \in Slots |-> IdleReq]

(***************************************************************************)
(* The transition driver of Assessment.status (a cron job or an admin      *)
(* action outside the server): pending -> open -> closed.                  *)
(***************************************************************************)
AdvanceStatus(id) ==
    /\ \E a \in db.tbl_assessments :
          /\ a.assessment_id = id
          /\ a.status \in {"pending", "open"}
          /\ db' = [db EXCEPT !.tbl_assessments =
                       (@ \ {a}) \cup
                          {[a EXCEPT !.status = IF a.status = "pending" THEN "open"
                                                ELSE "closed"]}]
    /\ UNCHANGED <<txn, req>>

(***************************************************************************)
(* SpecSubmit: two clients submit responses to the catalog while the       *)
(* status driver runs.                                                     *)
(***************************************************************************)
SubmitBody(a, q, t, text, vis) ==
    [assessmentId |-> a, questionId |-> q, targetUserId |-> t,
     responseText |-> text, visibility |-> vis]

SubmitRequests ==
    {[op |-> "submitResponse", sid |-> SessionOf("s1"), body |-> SubmitBody(a, q, t, x[1], x[2])] :
        a \in {1, 4}, q \in {2, 5}, t \in {NULL, "s2"},
        x \in {<<<<"4">>, "public">>, <<<<"a", "b", "c">>, "private">>}}
    \cup
    {[op |-> "submitResponse", sid |-> sid, body |-> SubmitBody(1, NoId, NULL, <<" ">>, "public")] :
        sid \in {NULL, SessionOf("s1")}}

InitSubmit == db = Catalog /\ txn = NoTxn /\ req = IdleSlots

NextSubmit ==
    \/ \E s \in Slots, r \in SubmitRequests : RoomForResponse(r, MaxSubmits) /\ Receive(s, r)
    \/ \E s \in Slots : SubmitResponse(s, FALSE)
    \/ \E id \in {1, 4} : AdvanceStatus(id)

SpecSubmit == InitSubmit /\ [][NextSubmit]_vars

(***************************************************************************)
(* SpecAverages: student s1 answers the questions of assessment 1 in       *)
(* public and the three reports are requested, one request at a time.      *)
(***************************************************************************)
Texts == {<<"4">>, <<"5">>, <<"3">>, <<"a", "b", "c">>, <<"a", "b", "c", "4">>}

ReportRequest(op, u, body) == [op |-> op, sid |-> SessionOf(u), body |-> body]

AverageRequests ==
    {[op |-> "submitResponse", sid |-> SessionOf("s1"),
      body |-> SubmitBody(1, q, NULL, text, "public")] : q \in {2, 3}, text \in Texts}
    \cup
    {ReportRequest("studentReport", "s1", [userId |-> "s1"]),
     ReportRequest("courseReport", "s1", [courseId |-> "c1"]),
     ReportRequest("teacherStudentReport", "t1", NoBody),
     ReportRequest("teacherStudentReport", "s1", NoBody)}

Reports(s) ==
    \/ GetStudentReport(s, FALSE)
    \/ GetCourseReport(s, FALSE)
    \/ GetTeacherStudentReport(s, FALSE)

NextAverages ==
    \/ \E r \in AverageRequests : RoomForResponse(r, MaxResponses) /\ Receive(1, r)
    \/ SubmitResponse(1, FALSE)
    \/ Reports(1)

SpecAverages == InitSubmit /\ [][NextAverages]_vars

(***************************************************************************)
(* SpecVisibility: s1 and s2 submit public and private responses, with     *)
(* and without a target, and every kind of principal requests reports;     *)
(* one request at a time.                                                  *)
(***************************************************************************)
VisibilityRequests ==
    {[op |-> "submitResponse", sid |-> SessionOf("s1"),
      body |-> SubmitBody(x[1], x[2], t, y[1], y[2])] :
        x \in {<<1, 2>>, <<4, 5>>}, t \in {NULL, "s2"},
        y \in {<<<<"4">>, "public">>, <<<<"5">>, "private">>}}
    \cup
    {[op |-> "submitResponse", sid |-> SessionOf("s2"),
      body |-> SubmitBody(1, 2, NULL, y[1], y[2])] :
        y \in {<<<<"3">>, "public">>, <<<<"5">>, "private">>}}
    \cup
    {ReportRequest("studentReport", p, [userId |-> u]) :
        p \in {"s2", "t1", "t2"}, u \in {"s1", "s2"}}
    \cup
    {ReportRequest("courseReport", p, [courseId |-> c]) :
        p \in {"s2", "t2"}, c \in {"c1", "c2"}}
    \cup
    {ReportRequest("teacherStudentReport", p, NoBody) : p \in {"t1", "t2", "s2"}}

NextVisibility ==
    \/ \E r \in VisibilityRequests : RoomForResponse(r, MaxSubmits) /\ Receive(1, r)
    \/ SubmitResponse(1, FALSE)
    \/ Reports(1)

SpecVisibility == InitSubmit /\ [][NextVisibility]_vars

(***************************************************************************)
(* Spec: teacher t1 creates assessments in course c1 through the handler   *)
(* of server.js:719, two requests at a time.  SpecSequential: one request  *)
(* at a time, through both copies of the handler.                          *)
(***************************************************************************)
OkQuestion == [type |-> "likert", text |-> "Rate", options |-> Likert5]
NoTextQuestion == [type |-> "likert", text |-> NULL, options |-> NULL]

QuestionLists == UNION {[1..n -> {OkQuestion, NoTextQuestion}] : n \in 0..MaxQuestions}

AssessmentBody(type, qs) ==
    [courseId |-> "c1", name |-> <<"A">>, type |-> type, startTime |-> 1, endTime |-> 2,
     visibility |-> "public", questions |-> qs]

CreateRequests ==
    {[op |-> "createAssessment", sid |-> SessionOf("t1"), body |-> AssessmentBody("review", qs)] :
        qs \in QuestionLists}
    \cup {[op |-> "createAssessment", sid |-> NULL, body |-> AssessmentBody("review", <<>>)]}

CreateRequests2 ==
    {[op |-> "createAssessment2", sid |-> SessionOf("t1"), body |-> AssessmentBody(type, qs)] :
        type \in {"quiz"}, qs \in QuestionLists}
    \cup {[op |-> "createAssessment2", sid |-> SessionOf("t1"),
           body |-> AssessmentBody("review", <<>>)]}

Init == db = BaseDb /\ txn = NoTxn /\ req = IdleSlots

CreateSteps(s) ==
    \/ \E err \in BOOLEAN : CreateAssessment(s, err)
    \/ CreateAssessmentFailed(s)
    \/ \E err \in BOOLEAN : InsertQuestion(s, err)
    \/ FinalizeAssessment(s)

CreateSteps2(s) ==
    \/ \E err \in BOOLEAN : CreateAssessment2(s, err)
    \/ CreateAssessment2Failed(s)
    \/ \E err \in BOOLEAN : InsertQuestion2(s, err)
    \/ FinalizeAssessment2(s)

Next ==
    \/ \E s \in Slots, r \in CreateRequests : RoomForAssessment(r) /\ Receive(s, r)
    \/ \E s \in Slots : CreateSteps(s)

Spec == Init /\ [][Next]_vars

NextSequential ==
    \/ \E r \in CreateRequests \cup CreateRequests2 : RoomForAssessment(r) /\ Receive(1, r)
    \/ CreateSteps(1)
    \/ CreateSteps2(1)

SpecSequential == Init /\ [][NextSequential]_vars

(***************************************************************************)
(* Properties of POST /api/responses, checked under SpecSubmit.            *)
(***************************************************************************)
Responses == db.tbl_assessment_responses

\* slot s replies to a submitResponse in this step
Submits(s) == InHandler(s, "submitResponse") /\ req'[s].pc = "done"

Accepted(r) == r.op = "submitResponse" /\ r.pc = "done" /\ r.reply.status = 201

StatusOf(d, id) == {a.status : a \in {x \in d.tbl_assessments : x.assessment_id = id}}

\* C1: of the submitResponse calls that carry one (questionId, authorId,
\* targetId) tuple only the first succeeds: a call whose tuple is already
\* stored is rejected and leaves the stored responses as they were, and the
\* store never holds two responses for one tuple.
C1_OnlyFirstSucceeds ==
    [][/\ \A s \in Slots :
             (Submits(s) /\ \E ar \in Responses : RowTuple(ar) = Tuple(req[s]))
                => /\ req'[s].reply.status # 201
                   /\ Responses' = Responses
       /\ \A x, y \in Responses' : RowTuple(x) = RowTuple(y) => x = y]_vars

\* C3: a submitResponse to a closed assessment is rejected and writes no
\* row; a response row is inserted only while its assessment is pending or
\* open.
C3_ClosedRejects ==
    [][/\ \A s \in Slots :
             (Submits(s) /\ "closed" \in StatusOf(db, req[s].body.assessmentId))
                => /\ req'[s].reply.status # 201
                   /\ Responses' = Responses
       /\ \A ar \in Responses' \ Responses :
             StatusOf(db, ar.assessment_id) \cap {"pending", "open"} # {}]_vars

\* C9: of two submitResponse requests for one tuple that were in flight at
\* the same time, exactly one succeeds and the other fails with a
\* duplicate-response error; never do both succeed.
C9_OneOfTwoConcurrent ==
    \A s, o \in Slots :
        (/\ s # o
         /\ req[s].op = "submitResponse" /\ req[o].op = "submitResponse"
         /\ req[s].pc = "done" /\ req[o].pc = "done"
         /\ req[s].raced /\ req[o].raced
         /\ Tuple(req[s]) = Tuple(req[o])
         /\ ResponseErrors(req[s].body) = {} /\ ResponseErrors(req[o].body) = {}
         /\ Accepted(req[s]))
            => /\ ~Accepted(req[o])
               /\ req[o].reply.error = "DuplicateResponseError"

\* C10: the question of every stored response exists and belongs to the
\* assessment of the response.
C10_QuestionBelongs ==
    \A ar \in Responses :
        \E q \in db.tbl_assessment_questions :
            /\ q.assessment_question_id = ar.question_id
            /\ q.assessment_id = ar.assessment_id

(***************************************************************************)
(* Properties of the reports.  In SpecAverages and SpecVisibility one      *)
(* request is served at a time, so while a slot shows the reply to a       *)
(* report the database is the one the report was computed from.            *)
(***************************************************************************)
Replied(s, op) == req[s].op = op /\ req[s].pc = "done" /\ req[s].reply.status = 200

ReportOps == {"studentReport", "courseReport", "teacherStudentReport"}

\* the report a request for op by principal p with this body gets from d
ReportData(d, op, p, body) ==
    CASE op = "studentReport" -> StudentReport(d, body.userId)
      [] op = "courseReport" -> CourseReport(d, body.courseId)
      [] op = "teacherStudentReport" ->
            IF tbl_users[p].user_type = "teacher" THEN TeacherStudentReport(d, p) ELSE {}

Without(d, ar) == [d EXCEPT !.tbl_assessment_responses = @ \ {ar}]

\* p is the author or the target of ar, or the teacher owning its assessment
Privileged(d, p, ar) ==
    \/ p = ar.user_id
    \/ p = ar.target_user_id
    \/ /\ tbl_users[p].user_type = "teacher"
       /\ \E a \in d.tbl_assessments :
             a.assessment_id = ar.assessment_id /\ a.user_id = p

PrivateResponses == {ar \in Responses : ar.visibility = "private"}

\* C2: a private response does not influence any report returned to a
\* principal who is neither its author, nor its target, nor the teacher
\* owning its assessment: the report such a principal gets, and every report
\* such a principal could request, is the one the store without that
\* response gives.
C2_PrivateDoesNotInfluence ==
    \A ar \in PrivateResponses :
        \A p \in {u \in Users : ~Privileged(db, u, ar)} :
            /\ \A u \in Users :
                  ReportData(db, "studentReport", p, [userId |-> u])
                     = ReportData(Without(db, ar), "studentReport", p, [userId |-> u])
            /\ \A c \in db.tbl_courses :
                  ReportData(db, "courseReport", p, [courseId |-> c])
                     = ReportData(Without(db, ar), "courseReport", p, [courseId |-> c])
            /\ ReportData(db, "teacherStudentReport", p, NoBody)
                  = ReportData(Without(db, ar), "teacherStudentReport", p, NoBody)
            /\ \A s \in Slots :
                  (req[s].op \in ReportOps /\ req[s].pc = "done" /\ req[s].user = p)
                     => req[s].reply.data
                           = ReportData(Without(db, ar), req[s].op, p, req[s].body)

\* a principal that is not privileged for a stored private response has
\* been answered a non-empty report about the author of that response
C2_Witness ==
    \E ar \in PrivateResponses, s \in Slots :
        /\ Replied(s, "studentReport") \/ Replied(s, "courseReport")
        /\ ~Privileged(db, req[s].user, ar)
        /\ req[s].reply.data # {}
        /\ \E row \in req[s].reply.data :
              \/ req[s].op = "studentReport" /\ req[s].body.userId = ar.user_id
                   /\ row.assessment_id = ar.assessment_id
              \/ req[s].op = "courseReport" /\ row.user_id = ar.user_id

\* a response text as the reports are specified to read it: it holds a number when it has a
\* digit, and only then counts in a mean
HasNumber(text) == \E i \in 1..Len(text) : text[i] \in Digits

MeanExcluding(rows) ==
    Avg({[key |-> ar.assessment_response_id,
          val |-> IF HasNumber(ar.response_text) THEN CastReal(ar.response_text)
                  ELSE NullReal] : ar \in rows})

\* the public responses of u to assessment id / to the assessments of
\* course c / to the assessments of teacher t in the courses u is enrolled in
PublicOf(u) == {ar \in Responses : ar.user_id = u /\ ar.visibility = "public"}

PublicFor(u, id) == {ar \in PublicOf(u) : ar.assessment_id = id}

PublicInCourse(u, c) ==
    {ar \in PublicOf(u) : \E a \in db.tbl_assessments :
                              a.assessment_id = ar.assessment_id /\ a.course_id = c}

PublicForTeacher(u, t) ==
    {ar \in PublicOf(u) : \E a \in db.tbl_assessments :
                              /\ a.assessment_id = ar.assessment_id
                              /\ a.user_id = t
                              /\ <<a.course_id, u>> \in db.tbl_enrollments}

\* C4: in every report the average leaves out the responses without a
\* number instead of counting them as zero ("4", "abc", "5" average 4.5).
C4_NonNumericExcluded ==
    \A s \in Slots :
        /\ Replied(s, "studentReport") =>
              \A row \in req[s].reply.data :
                  row.average = MeanExcluding(PublicFor(req[s].body.userId, row.assessment_id))
        /\ Replied(s, "courseReport") =>
              \A row \in req[s].reply.data :
                  row.average = MeanExcluding(PublicInCourse(row.user_id, req[s].body.courseId))
        /\ Replied(s, "teacherStudentReport") =>
              \A row \in req[s].reply.data :
                  row.average
                     = FormatAverage(MeanExcluding(PublicForTeacher(row.studentId, req[s].user)))

NoNumberIn(rows) == \A ar \in rows : ~HasNumber(ar.response_text)

\* C5: a student without any numeric response in the scope of a report has
\* a null average there (N/A), never 0.
C5_NullWithoutNumbers ==
    \A s \in Slots :
        /\ Replied(s, "studentReport") =>
              \A row \in req[s].reply.data :
                  NoNumberIn(PublicFor(req[s].body.userId, row.assessment_id))
                     => row.average = NullReal
        /\ Replied(s, "courseReport") =>
              \A row \in req[s].reply.data :
                  NoNumberIn(PublicInCourse(row.user_id, req[s].body.courseId))
                     => row.average = NullReal
        /\ Replied(s, "teacherStudentReport") =>
              \A row \in req[s].reply.data :
                  NoNumberIn(PublicForTeacher(row.studentId, req[s].user))
                     => row.average = "N/A"

\* a response that is one of the labels of the Likert scale 1..5 of its
\* question
OnLikert5(ar) ==
    /\ ar.response_text \in {<<"1">>, <<"2">>, <<"3">>, <<"4">>, <<"5">>}
    /\ \E q \in db.tbl_assessment_questions :
          /\ q.assessment_question_id = ar.question_id
          /\ q.question_type = "likert" /\ q.options = Likert5

\* (raw - min) / (max - min) * 100
Rescale(raw, min, max) == Real(((raw - min) * 100 * Scale) \div (max - min))

\* C6: reported averages are on the 0-100 scale: the mean of
\* (raw - min) / (max - min) * 100 over the scores, for Likert answers on
\* the scale 1..5 the mean of (raw - 1) / 4 * 100.
C6_HundredPointScale ==
    \A s \in Slots :
        Replied(s, "teacherStudentReport") =>
            \A row \in req[s].reply.data :
                LET rows == PublicForTeacher(row.studentId, req[s].user)
                IN (rows # {} /\ \A ar \in rows : OnLikert5(ar))
                      => row.average
                           = FormatAverage(
                               Avg({[key |-> ar.assessment_response_id,
                                     val |-> Rescale(NumericPrefix(ar.response_text, 0), 1, 5)] :
                                       ar \in rows}))

(***************************************************************************)
(* Properties of POST /api/assessments.                                    *)
(***************************************************************************)
AssessmentRowsOf(d, id) == {a \in d.tbl_assessments : a.assessment_id = id}

QuestionRowsOf(d, id) == {q \in d.tbl_assessment_questions : q.assessment_id = id}

\* the request in slot s got past the validators and has been answered
Created(r) == r.op \in CreateOps /\ r.pc = "done" /\ r.reply.status \in {201, 500}

AllValid(qs) == \A i \in 1..Len(qs) : qs[i].type # NULL /\ qs[i].text # NULL

\* C7: createAssessment is all-or-nothing: answered 201, all its questions
\* were valid and the assessment and exactly the submitted number of
\* questions are stored; with an invalid question or a failed insert it is
\* not answered 201 and neither the assessment nor any question is stored.
C7_AllOrNothing ==
    \A s \in Slots :
        Created(req[s]) =>
            LET id == req[s].local.assessmentId
                qs == req[s].body.questions
            IN  IF req[s].reply.status = 201
                THEN /\ AllValid(qs)
                     /\ Cardinality(AssessmentRowsOf(db, id)) = 1
                     /\ Cardinality(QuestionRowsOf(db, id)) = Len(qs)
                ELSE /\ AssessmentRowsOf(db, id) = {}
                     /\ QuestionRowsOf(db, id) = {}

\* the request in slot s is answered by this step
Answered(s) == req[s].op \in CreateOps /\ req[s].pc # "done" /\ req'[s].pc = "done"

\* C8: under every interleaving of createAssessment requests on the shared
\* connection, the request a step answers 201 has its assessment and all
\* its questions stored, the request a step answers with an error has none
\* of its rows stored, and the step that ends one request's transaction
\* leaves the rows of every other request in flight as they were.
C8_IsolatedTransactions ==
    [][\A s \in Slots :
          Answered(s) =>
              LET id == req[s].local.assessmentId
              IN  /\ req'[s].reply.status = 201 =>
                        /\ Cardinality(AssessmentRowsOf(db', id)) = 1
                        /\ Cardinality(QuestionRowsOf(db', id)) = Len(req[s].body.questions)
                  /\ req'[s].reply.status # 201 =>
                        /\ AssessmentRowsOf(db', id) = {}
                        /\ QuestionRowsOf(db', id) = {}
                  /\ \A o \in InFlight(CreateOps) \ {s} :
                        /\ AssessmentRowsOf(db', req[o].local.assessmentId)
                              = AssessmentRowsOf(db, req[o].local.assessmentId)
                        /\ QuestionRowsOf(db', req[o].local.assessmentId)
                              = QuestionRowsOf(db, req[o].local.assessmentId)]_vars

(***************************************************************************)
(* Further properties of POST /api/responses (SpecSubmit).                 *)
(***************************************************************************)
\* the courses of the assessment a response names
CoursesOf(d, id) == {a.course_id : a \in {x \in d.tbl_assessments : x.assessment_id = id}}

Enrolled(d, u, c) == <<c, u>> \in d.tbl_enrollments

\* C11: the author of every stored response is enrolled in the course of
\* the response's assessment, and so is its target when it has one; a
\* submission by or at a principal who is not enrolled is not accepted and
\* writes no row.
C11_PrincipalsEnrolled ==
    [][/\ \A ar \in Responses' :
            \A c \in CoursesOf(db', ar.assessment_id) :
                /\ Enrolled(db', ar.user_id, c)
                /\ ar.target_user_id # NULL => Enrolled(db', ar.target_user_id, c)
       /\ \A s \in Slots :
            (Submits(s) /\ \E c \in CoursesOf(db, req[s].body.assessmentId) :
                              \/ ~Enrolled(db, req[s].user, c)
                              \/ /\ req[s].body.targetUserId # NULL
                                 /\ ~Enrolled(db, req[s].body.targetUserId, c))
               => /\ req'[s].reply.status # 201
                  /\ Responses' = Responses]_vars

(***************************************************************************)
(* The responses a principal may see (SpecVisibility).                     *)
(***************************************************************************)
\* d with the private responses that p may see (as author, target or
\* owning teacher) marked public: a report over it uses exactly the
\* responses in scope that are visible to p
VisibleTo(d, p) ==
    [d EXCEPT !.tbl_assessment_responses =
        {IF Privileged(d, p, ar) THEN [ar EXCEPT !.visibility = "public"] ELSE ar : ar \in @}]

\* C12: the report a principal P is answered is computed from exactly the
\* responses in scope that are public, authored by P, targeted at P, or of
\* an assessment owned by teacher P; a private response of which P is the
\* author, the target or the owning teacher is included.
C12_VisibleSetUsed ==
    \A s \in Slots :
        (req[s].op \in ReportOps /\ req[s].pc = "done" /\ req[s].reply.status = 200)
            => req[s].reply.data
                  = ReportData(VisibleTo(db, req[s].user), req[s].op, req[s].user, req[s].body)

(***************************************************************************)
(* SpecValidation: a teacher and a student send assessments with good and  *)
(* bad fields to both copies of the handler (server.js:719 and 1481), one  *)
(* request at a time; the database reports no error beyond its NOT NULL    *)
(* constraints.  Times are integers (NoTime: not ISO 8601).                *)
(***************************************************************************)
ValidationQuestionLists ==
    {<<>>, <<OkQuestion>>, <<OkQuestion, NoTextQuestion>>, <<NoTextQuestion, NoTextQuestion>>}

ValidationBodies ==
    {[AssessmentBody(type, qs) EXCEPT !.name = name, !.visibility = vis,
                                      !.startTime = t[1], !.endTime = t[2]] :
        type \in {"quiz", "essay"}, qs \in ValidationQuestionLists,
        name \in {<<"A">>, <<" ">>}, vis \in {"public", "secret"},
        t \in {<<1, 2>>, <<2, 2>>, <<2, 1>>}}

ValidationRequests ==
    {[op |-> op, sid |-> SessionOf(u), body |-> b] :
        op \in CreateOps, u \in {"t1", "s1"}, b \in ValidationBodies}

NextValidation ==
    \/ \E r \in ValidationRequests : RoomForAssessment(r) /\ Receive(1, r)
    \/ CreateAssessment(1, FALSE)
    \/ InsertQuestion(1, FALSE)
    \/ FinalizeAssessment(1)
    \/ CreateAssessment2(1, FALSE)
    \/ InsertQuestion2(1, FALSE)
    \/ FinalizeAssessment2(1)

SpecValidation == Init /\ [][NextValidation]_vars

\* the fields of an assessment that break a rule of its contract
ViolatedFields(b) ==
    {f \in {"name", "type", "visibility", "startTime", "questions"} :
        \/ f = "name" /\ Trim(b.name) = <<>>
        \/ f = "type" /\ b.type \notin {"quiz", "survey", "review"}
        \/ f = "visibility" /\ b.visibility \notin Visibilities
        \/ f = "startTime" /\ ~(b.startTime < b.endTime)
        \/ f = "questions" /\ \/ Len(b.questions) < 1
                              \/ \E i \in 1..Len(b.questions) :
                                    \/ b.questions[i].text = NULL
                                    \/ b.questions[i].options = NULL}

\* C13: a createAssessment request that breaks several rules at once is
\* answered one validation error that lists every field in violation.
C13_AllErrorsListed ==
    \A s \in Slots :
        (req[s].op \in CreateOps /\ req[s].pc = "done"
            /\ req[s].user # NULL /\ ViolatedFields(req[s].body) # {})
           => /\ req[s].reply.status = 400
              /\ ViolatedFields(req[s].body) \subseteq req[s].reply.data

\* the assessments stored once no transaction is open
Stored == IF txn.active THEN {} ELSE db.tbl_assessments

\* C14: every stored assessment starts before it ends; an assessment whose
\* startTime is equal to or later than its endTime is rejected.
C14_StartBeforeEnd == \A a \in Stored : a.start_time < a.end_time

\* C15: every stored assessment is owned by a teacher; a createAssessment
\* request of a student persists nothing.
C15_OwnedByTeacher == \A a \in Stored : tbl_users[a.user_id].user_type = "teacher"

(***************************************************************************)
(* POST /api/auth/logout (server.js:352) and DELETE /api/courses/:courseId *)
(* (server.js:425).  Each is one statement on the shared connection, part  *)
(* of the transaction another request may have open.  The connection never *)
(* gets PRAGMA foreign_keys = ON, so no ON DELETE clause of the schema     *)
(* acts: the DELETE removes the row of tbl_courses and nothing else.       *)
(***************************************************************************)
Logout(s, err) ==
    /\ InHandler(s, "logout")
    /\ IF err
       THEN /\ req' = [req EXCEPT ![s] = Done(@, Reply(500, "Error during logout", {}))]
            /\ UNCHANGED db
       ELSE /\ db' = [db EXCEPT !.tbl_sessions =
                         [sid \in DOMAIN @ |->
                             IF sid = req[s].sid THEN [@[sid] EXCEPT !.status = "expired"]
                             ELSE @[sid]]]
            /\ req' = [req EXCEPT ![s] = Done(@, Reply(200, "Logged out successfully", {}))]
    /\ UNCHANGED txn

DeleteCourse(s, err) ==
    /\ InHandler(s, "deleteCourse")
    /\ LET strCourseId == req[s].body.courseId
       IN  IF err
           THEN /\ req' = [req EXCEPT ![s] = Done(@, Reply(500, "Error deleting course", {}))]
                /\ UNCHANGED db
           ELSE IF strCourseId \notin db.tbl_courses
           THEN /\ req' = [req EXCEPT ![s] = Done(@, Reply(404, "Course not found", {}))]
                /\ UNCHANGED db
           ELSE /\ db' = [db EXCEPT !.tbl_courses = @ \ {strCourseId}]
                /\ req' = [req EXCEPT ![s] =
                              Done(@, Reply(200, "Course deleted successfully", {}))]
    /\ UNCHANGED txn

(***************************************************************************)
(* SpecLifecycle: teacher t1 has one review in course c1.  Two requests at *)
(* a time: t1 creates assessments (server.js:719), s1 submits a response,  *)
(* courses are deleted, users log out; a request may come without a        *)
(* session id or with one that was never issued.                           *)
(***************************************************************************)
Catalog1 ==
    [BaseDb EXCEPT
        !.tbl_assessments = {CatalogAssessment(1, "c1", "t1")},
        !.tbl_assessment_questions = {CatalogQuestion(2, 1), CatalogQuestion(3, 1)}]

LifecycleRequests ==
    {[op |-> "createAssessment", sid |-> SessionOf("t1"), body |-> AssessmentBody("review", qs)] :
        qs \in {<<OkQuestion>>, <<NoTextQuestion>>}}
    \cup {[op |-> "logout", sid |-> sid, body |-> NoBody] :
             sid \in {SessionOf("t1"), SessionOf("s1"), NULL, "sess_x"}}
    \cup {[op |-> "deleteCourse", sid |-> SessionOf("t1"), body |-> [courseId |-> c]] :
             c \in {"c1", "c9"}}
    \cup {[op |-> "submitResponse", sid |-> SessionOf("s1"),
           body |-> SubmitBody(1, 2, NULL, <<"4">>, "public")]}

InitLifecycle == db = Catalog1 /\ txn = NoTxn /\ req = IdleSlots

NextLifecycle ==
    \/ \E s \in Slots, r \in LifecycleRequests :
          /\ r.op \in CreateOps => RoomForAssessment(r)
          /\ RoomForResponse(r, MaxSubmits)
          /\ Receive(s, r)
    \/ \E s \in Slots :
          \/ CreateAssessment(s, FALSE)
          \/ InsertQuestion(s, FALSE)
          \/ FinalizeAssessment(s)
          \/ SubmitResponse(s, FALSE)
          \/ Logout(s, FALSE)
          \/ DeleteCourse(s, FALSE)

SpecLifecycle == InitLifecycle /\ [][NextLifecycle]_vars

\* the request in slot s is answered by this step that its course is deleted
DeletesCourse(s) ==
    InHandler(s, "deleteCourse") /\ req'[s].pc = "done" /\ req'[s].reply.status = 200

ResponseRowsOf(d, id) == {ar \in d.tbl_assessment_responses : ar.assessment_id = id}

\* C16: deleting a course removes its assessments, and whenever a step
\* removes an assessment it removes all questions and all responses of that
\* assessment with it.
C16_CascadeDelete ==
    [][/\ \A s \in Slots :
            DeletesCourse(s) =>
                \A a \in db.tbl_assessments :
                    a.course_id = req[s].body.courseId
                       => AssessmentRowsOf(db', a.assessment_id) = {}
       /\ \A id \in AssessmentIds(db) \ AssessmentIds(db') :
            /\ QuestionRowsOf(db', id) = {}
            /\ ResponseRowsOf(db', id) = {}]_vars

\* the session id names a session that is active in d
ActiveSession(d, sid) ==
    sid \in DOMAIN d.tbl_sessions /\ d.tbl_sessions[sid].status = "active"

\* a request arrives in slot s by this step
Arrives(s) == Free(s) /\ req'[s] # req[s]

\* C17: a request enters its handler only with the id of a session that is
\* active when checked; without one (missing, unknown, expired) it is
\* answered 401 and changes nothing; and a session that is expired stays
\* expired, so its id never authenticates again.
C17_OnlyActiveSessions ==
    [][/\ \A s \in Slots :
            Arrives(s) =>
                IF ActiveSession(db, req'[s].sid)
                THEN req'[s].pc = "handler"
                ELSE /\ req'[s].pc = "done" /\ req'[s].reply.status = 401
                     /\ db' = db
       /\ \A sid \in DOMAIN db.tbl_sessions :
            ~ActiveSession(db, sid) => ~ActiveSession(db', sid)]_vars

(***************************************************************************)
(* SpecStatus: assessments are created through both copies of the handler, *)
(* one request at a time, while the status driver runs.  The driver works  *)
(* on the committed database: it is shut out while the server's connection *)
(* holds a transaction.                                                    *)
(***************************************************************************)
NextStatus ==
    \/ NextSequential
    \/ \E id \in AssessmentIds(db) : ~txn.active /\ AdvanceStatus(id)

SpecStatus == Init /\ [][NextStatus]_vars

Rank(status) == CASE status = "pending" -> 1 [] status = "open" -> 2 [] status = "closed" -> 3

\* C18: an assessment is pending when it is created, and from then on its
\* status only moves forward along pending -> open -> closed.
C18_StatusForward ==
    [][\A n \in db'.tbl_assessments :
          IF AssessmentRowsOf(db, n.assessment_id) = {}
          THEN n.status = "pending"
          ELSE \A a \in AssessmentRowsOf(db, n.assessment_id) :
                  Rank(a.status) <= Rank(n.status)]_vars

\* an assessment a request created has been taken to closed
C18_Witness ==
    \E s \in Slots :
        /\ Created(req[s]) /\ req[s].reply.status = 201
        /\ "closed" \in StatusOf(db, req[s].local.assessmentId)

(***************************************************************************)
(* The rows of the teacher student report (SpecVisibility).                *)
(***************************************************************************)
\* the students enrolled in a course that has an assessment owned by t
StudentsOf(d, t) ==
    {u \in Students : \E a \in d.tbl_assessments :
                          a.user_id = t /\ Enrolled(d, u, a.course_id)}

\* C19: the teacher student report has exactly one record for every
\* student enrolled in a course with an assessment of the requesting
\* teacher, also for a student without responses or with private responses
\* only, whose average is N/A; no student has two records.
C19_OneRowPerStudent ==
    \A s \in Slots :
        Replied(s, "teacherStudentReport") =>
            LET expected == StudentsOf(db, req[s].user)
                data == req[s].reply.data
            IN  /\ {row.studentId : row \in data} = expected
                /\ Cardinality(data) = Cardinality(expected)
                /\ \A row \in data :
                      PublicForTeacher(row.studentId, req[s].user) = {}
                         => row.average = "N/A"

(***************************************************************************)
(* SpecFrame: s1 submits responses to question 2 of assessment 1, two      *)
(* requests at a time, with texts with and without blanks around them and  *)
(* with good and bad visibilities.                                         *)
(***************************************************************************)
FrameRequests ==
    {[op |-> "submitResponse", sid |-> SessionOf("s1"),
      body |-> SubmitBody(1, 2, t, text, vis)] :
        t \in {NULL, "s2"},
        text \in {<<"4">>, <<" ", "5", " ">>, <<" ">>},
        vis \in {"public", "private", "secret"}}

NextFrame ==
    \/ \E s \in Slots, r \in FrameRequests : RoomForResponse(r, MaxSubmits) /\ Receive(s, r)
    \/ \E s \in Slots, err \in BOOLEAN : SubmitResponse(s, err)

SpecFrame == InitSubmit /\ [][NextFrame]_vars

\* the step changes nothing in the database but the set of responses
OnlyResponsesChange == db' = [db EXCEPT !.tbl_assessment_responses = Responses']

\* row ar carries the fields of request r and this text
Carries(ar, r, text) ==
    /\ ar.assessment_id = r.body.assessmentId
    /\ ar.question_id = r.body.questionId
    /\ ar.user_id = r.user
    /\ ar.target_user_id = r.body.targetUserId
    /\ ar.visibility = r.body.visibility
    /\ ar.response_text = text

FreshRequests ==
    {[op |-> "createAssessment", sid |-> SessionOf("t1"), body |-> AssessmentBody("review", qs)] :
        qs \in {<<OkQuestion>>, <<NoTextQuestion>>}}
    \cup {[op |-> "submitResponse", sid |-> SessionOf("s1"),
           body |-> SubmitBody(1, 2, NULL, <<"4">>, "public")],
          ReportRequest("studentReport", "s1", [userId |-> "s1"]),
          ReportRequest("teacherStudentReport", "t1", NoBody)}

NextFresh ==
    \/ \E s \in Slots, r \in FreshRequests :
          /\ r.op \in CreateOps => RoomForAssessment(r)
          /\ RoomForResponse(r, MaxSubmits)
          /\ Receive(s, r)
    \/ \E s \in Slots :
          \/ CreateAssessment(s, FALSE)
          \/ InsertQuestion(s, FALSE)
          \/ FinalizeAssessment(s)
          \/ SubmitResponse(s, FALSE)
          \/ GetStudentReport(s, FALSE)
          \/ GetTeacherStudentReport(s, FALSE)

SpecFresh == InitLifecycle /\ [][NextFresh]_vars

\* the report request in slot s is answered by this step
Reports200(s) ==
    /\ req[s].op \in ReportOps /\ req[s].pc = "handler"
    /\ req'[s].pc = "done" /\ req'[s].reply.status = 200

\* C21: a report is computed from the store as it is when the request is
\* served, and the store keeps every response whose submission has been
\* answered 201, so a report that starts after that answer takes the
\* response into account.
C21_ReportsSeeAcceptedResponses ==
    [][/\ \A s \in Slots :
            Reports200(s) =>
                req'[s].reply.data = ReportData(db, req[s].op, req[s].user, req[s].body)
       /\ \A o \in Slots :
            (Accepted(req[o]) /\ req'[o] = req[o]) =>
                \A ar \in Responses :
                    Carries(ar, req[o], Trim(req[o].body.responseText)) => ar \in Responses']_vars

(***************************************************************************)
(* SpecErrors: submissions, creations and reports, one request at a time,  *)
(* with a database that may fail any statement.                            *)
(***************************************************************************)
ErrorRequests ==
    {[op |-> "createAssessment", sid |-> SessionOf("t1"),
      body |-> AssessmentBody("review", <<OkQuestion>>)],
     [op |-> "submitResponse", sid |-> SessionOf("s1"),
      body |-> SubmitBody(1, 2, NULL, <<"4">>, "public")],
     ReportRequest("studentReport", "s1", [userId |-> "s1"]),
     ReportRequest("courseReport", "s1", [courseId |-> "c1"]),
     ReportRequest("teacherStudentReport", "t1", NoBody),
     ReportRequest("teacherStudentReport", "s1", NoBody)}

NextErrors ==
    \/ \E r \in ErrorRequests :
          /\ r.op \in CreateOps => RoomForAssessment(r)
          /\ RoomForResponse(r, MaxSubmits)
          /\ Receive(1, r)
    \/ CreateSteps(1)
    \/ \E err \in BOOLEAN :
          \/ SubmitResponse(1, err)
          \/ GetStudentReport(1, err)
          \/ GetCourseReport(1, err)
          \/ GetTeacherStudentReport(1, err)

SpecErrors == InitLifecycle /\ [][NextErrors]_vars

\* C22: the answer to a request that met a persistence failure carries a
\* generic message only: nothing of the database's error text or of any
\* other internal detail.
C22_GenericErrors ==
    \A s \in Slots :
        (req[s].pc = "done" /\ req[s].reply.status = 500) => req[s].reply.data = {}

(***************************************************************************)
(* Strict parsing of scores (SpecAverages).                                *)
(***************************************************************************)
\* the text is a number: digits and nothing else
IsNumber(text) == text # <<>> /\ \A i \in 1..Len(text) : text[i] \in Digits

StrictMean(rows) ==
    Avg({[key |-> ar.assessment_response_id,
          val |-> IF IsNumber(ar.response_text) THEN CastReal(ar.response_text)
                  ELSE NullReal] : ar \in rows})

\* C23: the teacher student report parses strictly or excludes: a response
\* that has a digit without being a number ("abc4") is left out of the
\* average instead of counting with the value 0 of an implicit cast.
C23_StrictParse ==
    \A s \in Slots :
        Replied(s, "teacherStudentReport") =>
            \A row \in req[s].reply.data :
                row.average
                   = FormatAverage(StrictMean(PublicForTeacher(row.studentId, req[s].user)))

(***************************************************************************)
(* SpecIdentity: requests whose body names a user of its own (a userId     *)
(* property next to the fields the handlers read), sent under the session  *)
(* of another user, two at a time.                                         *)
(***************************************************************************)
IdentityRequests ==
    {[op |-> "submitResponse", sid |-> SessionOf(u),
      body |-> [assessmentId |-> 1, questionId |-> 2, targetUserId |-> NULL,
                responseText |-> <<"4">>, visibility |-> "public", userId |-> b]] :
        u \in {"s1", "s2"}, b \in {"s1", "s2"}}
    \cup
    {[op |-> "createAssessment", sid |-> SessionOf(u),
      body |-> [courseId |-> "c1", name |-> <<"A">>, type |-> "review", startTime |-> 1,
                endTime |-> 2, visibility |-> "public", questions |-> <<OkQuestion>>,
                userId |-> b]] :
        u \in {"t1", "t2"}, b \in {"t1", "t2"}}

NextIdentity ==
    \/ \E s \in Slots, r \in IdentityRequests :
          /\ r.op \in CreateOps => RoomForAssessment(r)
          /\ RoomForResponse(r, MaxSubmits)
          /\ Receive(s, r)
    \/ \E s \in Slots :
          \/ CreateAssessment(s, FALSE)
          \/ InsertQuestion(s, FALSE)
          \/ FinalizeAssessment(s)
          \/ SubmitResponse(s, FALSE)

SpecIdentity == InitLifecycle /\ [][NextIdentity]_vars

\* the user of the session the request in slot s came with
SessionOwner(s) == db.tbl_sessions[req[s].sid].user_id

\* C24: the user_id of a response is the user of the session that
\* submitted it and the owner of an assessment is the user of the session
\* that created it, whatever the request body says.
C24_IdentityFromSession ==
    [][\A s \in Slots :
          /\ Submits(s) =>
                \A ar \in Responses' \ Responses : ar.user_id = SessionOwner(s)
          /\ (InHandler(s, "createAssessment") /\ req'[s] # req[s]) =>
                \A a \in db'.tbl_assessments \ db.tbl_assessments :
                    a.user_id = SessionOwner(s)]_vars

\* a response and an assessment are stored under the user of the session
\* although the bodies of their requests named somebody else
C24_Witness ==
    /\ \E s \in Slots :
          /\ Accepted(req[s]) /\ req[s].body.userId # SessionOwner(s)
          /\ \E ar \in Responses : ar.user_id = SessionOwner(s)
    /\ \E s \in Slots :
          /\ Created(req[s]) /\ req[s].reply.status = 201
          /\ req[s].body.userId # SessionOwner(s)
          /\ \E a \in AssessmentRowsOf(db, req[s].local.assessmentId) :
                a.user_id = SessionOwner(s)

(***************************************************************************)
(* Teams: POST /api/teams (server.js:512) and POST /api/teams/assign       *)
(* (server.js:658).  The database of these routes has the two tables of    *)
(* groups next to the others.  A request keeps in local the statements it  *)
(* has queued (pending), the number of member INSERTs that failed and the  *)
(* number of times it has called res.status(..).json(..) (sent); reply is  *)
(* the first answer.                                                       *)
(***************************************************************************)
MaxTeams == 2

TeamDb ==
    [tbl_sessions |-> BaseDb.tbl_sessions,
     tbl_courses |-> BaseDb.tbl_courses,
     tbl_enrollments |-> BaseDb.tbl_enrollments,
     tbl_assessments |-> {},
     tbl_assessment_questions |-> {},
     tbl_assessment_responses |-> {},
     tbl_course_groups |-> {},
     tbl_group_members |-> {}]

TeamLocal(groupId, pending) ==
    [groupId |-> groupId, pending |-> pending, failed |-> 0, sent |-> 0]

\* res.status(..).json(..) once more; the first call is the answer
Send(r, reply) ==
    [r EXCEPT !.local.sent = @ + 1, !.reply = IF r.local.sent = 0 THEN reply ELSE @]

\* nothing more of the request is queued
Finish(r) == [r EXCEPT !.pc = "done"]

GroupIdsIn(d) ==
    {g.course_group_id : g \in d.tbl_course_groups} \cup {m[1] : m \in d.tbl_group_members}

\* the group ids a new uuid cannot collide with
UsedGroupIds ==
    GroupIdsIn(db) \cup (IF txn.active THEN GroupIdsIn(txn.snapshot) ELSE {}) \cup {NoId}

TeamErrors(b) ==
    {f \in {"courseId", "groupName"} :
        \/ f = "courseId" /\ b.courseId = NULL
        \/ f = "groupName" /\ Trim(b.groupName) = <<>>}

\* validation, then db.serialize: BEGIN TRANSACTION and the INSERT of the
\* group; its callback queues every member INSERT (hasError is still false
\* while forEach runs), stmt.finalize and, hasError being false, COMMIT
CreateTeam(s, err) ==
    /\ InHandler(s, "createTeam")
    /\ LET r == req[s]
           bad == TeamErrors(r.body)
           groupId == uuidv4(UsedGroupIds)
       IN  IF bad # {}
           THEN /\ req' = [req EXCEPT ![s] =
                              Finish(Send([r EXCEPT !.local = TeamLocal(NoId, <<>>)],
                                          Reply(400, "errors", bad)))]
                /\ UNCHANGED <<db, txn>>
           ELSE /\ txn' = Begin(txn, db)
                /\ IF err
                   THEN /\ req' = [req EXCEPT ![s].pc = "teamInsertFailed"]
                        /\ UNCHANGED db
                   ELSE /\ db' = [db EXCEPT !.tbl_course_groups =
                                     @ \cup {[course_group_id |-> groupId,
                                              course_id |-> r.body.courseId,
                                              group_name |-> Trim(r.body.groupName)]}]
                        /\ req' = [req EXCEPT ![s].pc = "members",
                                              ![s].local = TeamLocal(groupId, r.body.members)]

\* server.js:535-539
CreateTeamFailed(s) ==
    /\ req[s].op = "createTeam" /\ req[s].pc = "teamInsertFailed"
    /\ db' = RollbackDb(txn, db)
    /\ txn' = NoTxn
    /\ req' = [req EXCEPT ![s] =
                  Finish(Send([@ EXCEPT !.local = TeamLocal(NoId, <<>>)],
                              Reply(500, "Error creating team", {})))]

\* one stmt.run of server.js:549 and its callback, which sets hasError
\* after the handler has read it.  The INSERT fails on the primary key
\* (group_id, user_id), or when err.
InsertMember(s, err) ==
    /\ req[s].op = "createTeam" /\ req[s].pc = "members"
    /\ req[s].local.pending # <<>>
    /\ LET m == <<req[s].local.groupId, Head(req[s].local.pending)>>
           fails == err \/ m \in db.tbl_group_members
       IN  /\ db' = IF fails THEN db ELSE [db EXCEPT !.tbl_group_members = @ \cup {m}]
           /\ req' = [req EXCEPT ![s].local.pending = Tail(@),
                                 ![s].local.failed = IF fails THEN @ + 1 ELSE @]
    /\ UNCHANGED txn

\* db.run('COMMIT', ...) and its callback (server.js:567)
FinalizeTeam(s) ==
    /\ req[s].op = "createTeam" /\ req[s].pc = "members"
    /\ req[s].local.pending = <<>>
    /\ IF CommitFails(txn)
       THEN /\ db' = RollbackDb(txn, db)
            /\ req' = [req EXCEPT ![s] =
                          Finish(Send(@, Reply(500, "Error creating team", {})))]
       ELSE /\ UNCHANGED db
            /\ req' = [req EXCEPT ![s] =
                          Finish(Send(@, Reply(201, "Team created successfully", {})))]
    /\ txn' = NoTxn

AssignErrors(b) ==
    {f \in {"groupId", "userIds"} :
        \/ f = "groupId" /\ b.groupId = NoId
        \/ f = "userIds" /\ Len(b.userIds) < 1}

\* validation, then db.serialize: BEGIN TRANSACTION; the loop queues one
\* stmt.run per user and stmt.finalize
AssignTeam(s) ==
    /\ InHandler(s, "assignTeam")
    /\ LET r == req[s]
           bad == AssignErrors(r.body)
       IN  IF bad # {}
           THEN /\ req' = [req EXCEPT ![s] =
                              Finish(Send([r EXCEPT !.local = TeamLocal(r.body.groupId, <<>>)],
                                          Reply(400, "errors", bad)))]
                /\ UNCHANGED txn
           ELSE /\ txn' = Begin(txn, db)
                /\ req' = [req EXCEPT ![s].pc = "assign",
                                      ![s].local = TeamLocal(r.body.groupId, r.body.userIds)]
    /\ UNCHANGED db

\* one stmt.run of server.js:673 (INSERT OR IGNORE) and its callback: on
\* an error it queues ROLLBACK and answers 500
AssignMember(s, err) ==
    /\ req[s].op = "assignTeam" /\ req[s].pc = "assign"
    /\ req[s].local.pending # <<>>
    /\ LET m == <<req[s].local.groupId, Head(req[s].local.pending)>>
           r == [req[s] EXCEPT !.local.pending = Tail(@)]
       IN  IF err
           THEN /\ req' = [req EXCEPT ![s] =
                              Send([r EXCEPT !.local.failed = @ + 1],
                                   Reply(500, "Failed to assign students", {}))]
                /\ UNCHANGED db
           ELSE /\ req' = [req EXCEPT ![s] = r]
                /\ db' = [db EXCEPT !.tbl_group_members = @ \cup {m}]
    /\ UNCHANGED txn

\* the callback of stmt.finalize (server.js:682), after the ROLLBACKs the
\* failed INSERTs queued: ROLLBACK and 500, or COMMIT and 200
FinalizeAssign(s, err) ==
    /\ req[s].op = "assignTeam" /\ req[s].pc = "assign"
    /\ req[s].local.pending = <<>>
    /\ db' = IF req[s].local.failed > 0 \/ err THEN RollbackDb(txn, db) ELSE db
    /\ txn' = NoTxn
    /\ req' = [req EXCEPT ![s] =
                  IF err
                  THEN Finish(Send(@, Reply(500, "Error finalizing group assignment", {})))
                  ELSE Finish(Send(@, Reply(200, "Students assigned to group successfully",
                                            {})))]

RoomForTeam(r) ==
    r.op = "createTeam" => Cardinality(UsedGroupIds \ {NoId}) < MaxTeams

MemberLists == {<<>>, <<"s1">>, <<"s1", "s2">>, <<"s1", "s1">>}

TeamRequests ==
    {[op |-> "createTeam", sid |-> sid,
      body |-> [courseId |-> c, groupName |-> n, members |-> ms]] :
        sid \in {SessionOf("t1"), NULL}, c \in {"c1", NULL}, n \in {<<"G">>, <<" ">>},
        ms \in MemberLists}
      \cup
    {[op |-> "assignTeam", sid |-> SessionOf("t1"),
      body |-> [groupId |-> g, userIds |-> us]] :
        g \in {NoId, 1}, us \in {<<>>, <<"s1">>, <<"s1", "s2">>}}

TeamSteps(s) ==
    \/ \E err \in BOOLEAN : CreateTeam(s, err)
    \/ CreateTeamFailed(s)
    \/ \E err \in BOOLEAN : InsertMember(s, err)
    \/ FinalizeTeam(s)
    \/ AssignTeam(s)
    \/ \E err \in BOOLEAN : AssignMember(s, err)
    \/ \E err \in BOOLEAN : FinalizeAssign(s, err)

InitTeams == db = TeamDb /\ txn = NoTxn /\ req = IdleSlots

\* one request at a time
NextTeams ==
    \/ \E r \in TeamRequests : RoomForTeam(r) /\ Receive(1, r)
    \/ TeamSteps(1)

SpecTeams == InitTeams /\ [][NextTeams]_vars

TeamOps == {"createTeam", "assignTeam"}

\* the requests of the team routes that have run to their end
TeamDone == {s \in Slots : req[s].op \in TeamOps /\ req[s].pc = "done" /\ req[s].sid # NULL}

\* C25: every request to POST /api/teams and POST /api/teams/assign that
\* has run to its end has sent exactly one response.
C25_ExactlyOneResponse == \A s \in TeamDone : req[s].local.sent = 1

\* the member rows a createTeam request asked for
Wanted(r) == {<<r.local.groupId, r.body.members[i]>> : i \in DOMAIN r.body.members}

\* C26: a team whose creation was answered 201 is stored with its group row
\* and every member row of the request; after any other answer neither the
\* group nor any of its members is stored.
C26_TeamAtomic ==
    \A s \in TeamDone :
        req[s].op = "createTeam" =>
            IF req[s].reply.status = 201
            THEN /\ req[s].local.groupId \in {g.course_group_id : g \in db.tbl_course_groups}
                 /\ Wanted(req[s]) \subseteq db.tbl_group_members
                 /\ req[s].local.failed = 0
            ELSE /\ req[s].local.groupId \notin
                        {g.course_group_id : g \in db.tbl_course_groups}
                 /\ \A m \in db.tbl_group_members : m[1] # req[s].local.groupId

(***************************************************************************)
(* POST /api/enrollments (server.js:444): three statements, each in the    *)
(* callback of the one before.  local.course tells whether the course row  *)
(* was in tbl_courses when the INSERT ran ("unset" before it).             *)
(***************************************************************************)
EnrollLocal(course) == [course |-> course]

\* server.js:445-450
Enroll(s) ==
    /\ InHandler(s, "enroll")
    /\ req' = [req EXCEPT ![s] =
                  IF @.body.courseId = NULL
                  THEN Done([@ EXCEPT !.local = EnrollLocal("unset")],
                            Reply(400, "Course ID is required", {}))
                  ELSE [@ EXCEPT !.pc = "checkCourse", !.local = EnrollLocal("unset")]]
    /\ UNCHANGED <<db, txn>>

\* SELECT * FROM tbl_courses WHERE course_id = ? and its callback
CheckCourse(s, err) ==
    /\ req[s].op = "enroll" /\ req[s].pc = "checkCourse"
    /\ req' = [req EXCEPT ![s] =
                  IF err THEN Done(@, Reply(500, "Database error checking course", {}))
                  ELSE IF @.body.courseId \notin db.tbl_courses
                  THEN Done(@, Reply(404, "Course not found", {}))
                  ELSE [@ EXCEPT !.pc = "checkEnrollment"]]
    /\ UNCHANGED <<db, txn>>

\* SELECT * FROM tbl_enrollments WHERE course_id = ? AND user_id = ?
CheckEnrollment(s, err) ==
    /\ req[s].op = "enroll" /\ req[s].pc = "checkEnrollment"
    /\ req' = [req EXCEPT ![s] =
                  IF err THEN Done(@, Reply(500, "Database error checking enrollment", {}))
                  ELSE IF <<@.body.courseId, @.user>> \in db.tbl_enrollments
                  THEN Done(@, Reply(400, "Already enrolled in this course", {}))
                  ELSE [@ EXCEPT !.pc = "insertEnrollment"]]
    /\ UNCHANGED <<db, txn>>

\* INSERT INTO tbl_enrollments: it fails on the primary key
\* (course_id, user_id), or when err; the foreign key is not enforced
InsertEnrollment(s, err) ==
    /\ req[s].op = "enroll" /\ req[s].pc = "insertEnrollment"
    /\ LET e == <<req[s].body.courseId, req[s].user>>
       IN  IF err \/ e \in db.tbl_enrollments
           THEN /\ req' = [req EXCEPT ![s] = Done(@, Reply(500, "Error enrolling in course", {}))]
                /\ UNCHANGED db
           ELSE /\ db' = [db EXCEPT !.tbl_enrollments = @ \cup {e}]
                /\ req' = [req EXCEPT ![s] =
                              Done([@ EXCEPT !.local =
                                       EnrollLocal(IF e[1] \in db.tbl_courses
                                                   THEN "present" ELSE "absent")],
                                   Reply(200, "Enrolled successfully", {}))]
    /\ UNCHANGED txn

EnrollRequests ==
    {[op |-> "enroll", sid |-> SessionOf(u), body |-> [courseId |-> c]] :
        u \in {"s1", "s2"}, c \in {"c1", "c2", "c9", NULL}}
    \cup {[op |-> "deleteCourse", sid |-> SessionOf("t2"), body |-> [courseId |-> "c2"]]}

\* two requests at a time; no statement fails in the storage
NextEnroll ==
    \/ \E s \in Slots, r \in EnrollRequests : Receive(s, r)
    \/ \E s \in Slots :
          \/ Enroll(s)
          \/ CheckCourse(s, FALSE)
          \/ CheckEnrollment(s, FALSE)
          \/ InsertEnrollment(s, FALSE)
          \/ DeleteCourse(s, FALSE)

SpecEnroll == Init /\ [][NextEnroll]_vars

\* C27: an accepted enrollment is written for a course that is stored when
\* the row is written, and an enroll request is answered 200, 400 or 404
\* (401 without a session): a duplicate never ends in a failed INSERT.
C27_EnrollmentsConsistent ==
    \A s \in Slots :
        (req[s].op = "enroll" /\ req[s].pc = "done") =>
            /\ req[s].reply.status \in {200, 400, 404, 401}
            /\ req[s].reply.status = 200 => req[s].local.course = "present"

(***************************************************************************)
(* SpecPending: every route that writes tbl_assessments or reads its       *)
(* status.  Teacher t1 creates assessments through both copies of POST     *)
(* /api/assessments, s1 answers a question of the stored review, a course  *)
(* is deleted; two requests at a time.                                     *)
(***************************************************************************)
PendingRequests ==
    {[op |-> op, sid |-> SessionOf("t1"), body |-> AssessmentBody(type, qs)] :
        op \in CreateOps, type \in {"quiz"}, qs \in {<<OkQuestion>>, <<NoTextQuestion>>}}
    \cup {[op |-> "deleteCourse", sid |-> SessionOf("t1"), body |-> [courseId |-> "c1"]]}
    \cup {[op |-> "submitResponse", sid |-> SessionOf("s1"),
           body |-> SubmitBody(1, 2, NULL, <<"4">>, "public")]}

NextPending ==
    \/ \E s \in Slots, r \in PendingRequests :
          /\ r.op \in CreateOps => RoomForAssessment(r)
          /\ RoomForResponse(r, MaxSubmits)
          /\ Receive(s, r)
    \/ \E s \in Slots :
          \/ CreateAssessment(s, FALSE)
          \/ CreateAssessment2(s, FALSE)
          \/ InsertQuestion(s, FALSE)
          \/ InsertQuestion2(s, FALSE)
          \/ FinalizeAssessment(s)
          \/ FinalizeAssessment2(s)
          \/ SubmitResponse(s, FALSE)
          \/ DeleteCourse(s, FALSE)

SpecPending == InitLifecycle /\ [][NextPending]_vars

\* C28: every stored assessment has status pending, whatever requests the
\* server has served; a response is accepted for an assessment in that
\* status, whatever its end_time.
C28_AlwaysPending ==
    /\ \A a \in db.tbl_assessments : a.status = "pending"
    /\ \A s \in Slots :
          Accepted(req[s]) => StatusOf(db, req[s].body.assessmentId) \subseteq {"pending"}

\* a request has stored an assessment next to the review and a response
\* has been accepted
C28_Witness ==
    /\ \E s \in Slots : Accepted(req[s])
    /\ \E s \in Slots :
          /\ Created(req[s]) /\ req[s].reply.status = 201
          /\ \E a \in db.tbl_assessments : a.assessment_id = req[s].local.assessmentId
    /\ Cardinality(db.tbl_assessments) >= 2

(***************************************************************************)
(* The client (main.js and the auth module).  Slot Browser of req is the   *)
(* page: op and pc are the operation it runs and its position, sid the     *)
(* session-id header of its fetch, user the account of the login form,     *)
(* and local holds AppState, localStorage and the page shown.  local.loaded*)
(* is the session id checkSession found stored and local.serverActive      *)
(* whether the server held it active when the verify request was served.   *)
(* The other slot serves a logout sent from elsewhere with a session id of  *)
(* the table.                                                               *)
(***************************************************************************)
MaxLogins == 2

Browser == 1

Undefined == "UNDEFINED"

NoAppState == [currentUser |-> NULL, currentSessionId |-> NULL]

NoStorage == [currentUser |-> NULL, sessionId |-> NULL]

\* a page that has just been loaded over the given localStorage
FreshPage(storage) ==
    [AppState |-> NoAppState, localStorage |-> storage, page |-> "none",
     loaded |-> NULL, serverActive |-> FALSE]

\* the value fetch puts in a header
HeaderValue(v) == IF v = Undefined THEN "undefined" ELSE IF v = NULL THEN "null" ELSE v

SessionName(n) == "sess_" \o ToString(n)

\* strSessionId = uuidv4() of the login and register routes
NewSessionId(d) ==
    SessionName(uuidv4({n \in 1..MaxLogins : SessionName(n) \in DOMAIN d.tbl_sessions}
                          \cup {NoId}))

BrowserFree == req[Browser].pc \in {"idle", "done"}

BrowserAt(op, pc) == req[Browser].op = op /\ req[Browser].pc = pc

\* the submit of the login or the register form: the fetch is sent
HandleLogin(op, u) ==
    /\ BrowserFree
    /\ Cardinality(DOMAIN db.tbl_sessions) < MaxLogins
    /\ req' = [req EXCEPT ![Browser].op = op, ![Browser].pc = "fetch",
                          ![Browser].user = u, ![Browser].sid = NULL]
    /\ UNCHANGED <<db, txn>>

\* the route answers: not ok (wrong credentials, a taken email, a failed
\* statement), or a new active session and { user, sessionId }, which the
\* client keeps in AppState and in localStorage
LoginResponse(op, ok) ==
    /\ BrowserAt(op, "fetch")
    /\ IF ~ok
       THEN /\ req' = [req EXCEPT ![Browser].pc = "done"]
            /\ UNCHANGED db
       ELSE LET sessionId == NewSessionId(db)
                user == req[Browser].user
            IN  /\ db' = [db EXCEPT !.tbl_sessions =
                             [x \in DOMAIN @ \cup {sessionId} |->
                                 IF x = sessionId
                                 THEN [user_id |-> user, status |-> "active"]
                                 ELSE @[x]]]
                /\ req' = [req EXCEPT
                              ![Browser].pc = "done",
                              ![Browser].local.AppState =
                                  [currentUser |-> user, currentSessionId |-> sessionId],
                              ![Browser].local.localStorage =
                                  [currentUser |-> user, sessionId |-> sessionId],
                              ![Browser].local.page = "dashboard"]
    /\ UNCHANGED txn

\* signOut sends POST /api/auth/logout with AppState.currentSessionId
SignOut ==
    /\ BrowserFree
    /\ req' = [req EXCEPT ![Browser].op = "signOut", ![Browser].pc = "fetch",
                          ![Browser].sid =
                              HeaderValue(req[Browser].local.AppState.currentSessionId)]
    /\ UNCHANGED <<db, txn>>

\* authenticateUser and the logout route answer; when ok the client clears
\* AppState and localStorage
SignOutResponse(err) ==
    /\ BrowserAt("signOut", "fetch")
    /\ LET sid == req[Browser].sid
           ok == ~err /\ SessionUser(db, sid) # NULL
       IN  IF ok
           THEN /\ db' = [db EXCEPT !.tbl_sessions[sid].status = "expired"]
                /\ req' = [req EXCEPT ![Browser].pc = "done",
                                      ![Browser].local.AppState = NoAppState,
                                      ![Browser].local.localStorage = NoStorage,
                                      ![Browser].local.page = "landing"]
           ELSE /\ req' = [req EXCEPT ![Browser].pc = "done"]
                /\ UNCHANGED db
    /\ UNCHANGED txn

\* DOMContentLoaded of a new page: checkSession up to its await.  It calls
\* verifySession() without an argument.
CheckSession ==
    /\ BrowserFree
    /\ LET storage == req[Browser].local.localStorage
           fresh == FreshPage(storage)
       IN  req' = [req EXCEPT ![Browser] =
                      IF storage.currentUser = NULL \/ storage.sessionId = NULL
                      THEN [@ EXCEPT !.op = "checkSession", !.pc = "done", !.sid = NULL,
                                     !.local = [fresh EXCEPT !.page = "landing"]]
                      ELSE [@ EXCEPT !.op = "checkSession", !.pc = "fetch",
                                     !.sid = HeaderValue(Undefined),
                                     !.local = [fresh EXCEPT
                                                   !.AppState =
                                                       [currentUser |-> storage.currentUser,
                                                        currentSessionId |-> storage.sessionId],
                                                   !.loaded = storage.sessionId]]]
    /\ UNCHANGED <<db, txn>>

\* GET /api/auth/verify answers (err: the fetch fails); checkSession goes
\* on with showDashboard or with the handleSessionExpiration of main.js
CheckSessionResponse(err) ==
    /\ BrowserAt("checkSession", "fetch")
    /\ LET isValid == ~err /\ ActiveSession(db, req[Browser].sid)
           r == [req[Browser] EXCEPT
                    !.pc = "done",
                    !.local.serverActive = ActiveSession(db, req[Browser].local.loaded)]
       IN  req' = [req EXCEPT ![Browser] =
                      IF isValid
                      THEN [r EXCEPT !.local.page = "dashboard"]
                      ELSE [r EXCEPT !.local.localStorage = NoStorage,
                                     !.local.page = "landing"]]
    /\ UNCHANGED <<db, txn>>

\* handleSessionExpiration of the auth module
HandleSessionExpiration ==
    /\ BrowserFree
    /\ req' = [req EXCEPT ![Browser].op = "handleSessionExpiration",
                          ![Browser].pc = "done",
                          ![Browser].local.AppState = NoAppState,
                          ![Browser].local.localStorage = NoStorage,
                          ![Browser].local.page = "landing"]
    /\ UNCHANGED <<db, txn>>

LoginOps == {"handleLogin", "handleRegister"}

InitClient ==
    /\ db = [BaseDb EXCEPT !.tbl_sessions = << >>]
    /\ txn = NoTxn
    /\ req = [s \in Slots |->
                 IF s = Browser THEN [IdleReq EXCEPT !.local = FreshPage(NoStorage)]
                 ELSE IdleReq]

NextClient ==
    \/ \E op \in LoginOps, u \in {"t1", "s1"} : HandleLogin(op, u)
    \/ \E op \in LoginOps, ok \in BOOLEAN : LoginResponse(op, ok)
    \/ SignOut
    \/ \E err \in BOOLEAN : SignOutResponse(err)
    \/ CheckSession
    \/ \E err \in BOOLEAN : CheckSessionResponse(err)
    \/ HandleSessionExpiration
    \/ \E sid \in DOMAIN db.tbl_sessions :
          Receive(2, [op |-> "logout", sid |-> sid, body |-> NoBody])
    \/ Logout(2, FALSE)

SpecClient == InitClient /\ [][NextClient]_vars

InMemory ==
    /\ req[Browser].local.AppState.currentUser # NULL
    /\ req[Browser].local.AppState.currentSessionId # NULL

Persisted ==
    /\ req[Browser].local.localStorage.currentUser # NULL
    /\ req[Browser].local.localStorage.sessionId # NULL

\* C29: when no operation of the client is under way, AppState holds a user
\* and a session id exactly when localStorage holds them.
C29_MemoryAgreesWithStorage == BrowserFree => (InMemory <=> Persisted)

\* C30: when checkSession has ended, the dashboard is shown and the stored
\* session kept if a session was stored and the server held it active;
\* otherwise the landing page is shown and the stored session cleared.
C30_CheckSessionOutcome ==
    BrowserAt("checkSession", "done") =>
        IF req[Browser].local.loaded # NULL /\ req[Browser].local.serverActive
        THEN /\ req[Browser].local.page = "dashboard"
             /\ req[Browser].local.localStorage.sessionId = req[Browser].local.loaded
        ELSE /\ req[Browser].local.page = "landing"
             /\ ~Persisted

====
